---- MODULE Spec2Model ----
(***************************************************************************)
(* A model of packageLoader.py: loadAll scans a directory of zip packages, *)
(* parse_package collects the definitions of every package into the        *)
(* module-level tables obj / obj_override, loadAll parses every collected  *)
(* original into data, and setup_style_tree resolves style inheritance     *)
(* for every item version.                                                 *)
(*                                                                         *)
(* Python dicts are modelled as sequences of entries in insertion order    *)
(* (the iteration order of a dict); a None value is the string "None".     *)
(***************************************************************************)
EXTENDS Integers, Sequences, FiniteSets, TLC

VARIABLES
    dir,            \* contents: the entries os.listdir returned, in order
    load_res,       \* the load_res argument of loadAll, drawn at line 73,
                    \* where the call first reads it
    pc,             \* the position of the call in loadAll / setup_style_tree
    idx,            \* the index of the loop the call is in
    packages,       \* the module-level registry (dict id -> package tuple)
    zips,           \* the archive handles opened by this call
    obj,            \* module-level: type -> dict id -> (zip, node, pak_id, name)
    obj_override,   \* module-level: type -> dict (or, after line 123, a list)
    data,           \* module-level: type -> list of parsed objects
    objects,        \* the local counter of loadAll
    events,         \* the calls made on the loading screen, in order
    merges,         \* the add_over calls made, in order
    err,            \* the exception the call is propagating, or "none"
    seen,           \* history: every definition parse_package looked at
    styles,         \* setup_style_tree: the local dict id -> style
    b_style,        \* setup_style_tree: the local b_style (a style id)
    base,           \* setup_style_tree: the local list base (style ids)
    declared,       \* history: data['Item'] as setup_style_tree received it
    first,          \* history: what the load of the same directory returned
                    \* in an earlier process (<<>>: there was none)
    cached_img_tk,  \* img.py: dict (path, width, height) -> Tk image
    cached_img_wx,  \* img.py: dict (path, width, height) -> wx bitmap
    filesystem,     \* img.py: the paths the filesystem chain holds a file for
    img_error,      \* img.py: the image used for a file that is not there
    made,           \* the number of image objects created so far
    calls           \* history: the calls of png and png_wx, in order

vars == <<dir, load_res, pc, idx, packages, zips, obj, obj_override, data,
          objects, events, merges, err, seen, styles, b_style, base, declared,
          first, cached_img_tk, cached_img_wx, filesystem, img_error, made,
          calls>>

imgVars == <<cached_img_tk, cached_img_wx, filesystem, img_error, made, calls>>

---------------------------------------------------------------------------
(* Bounds of the model *)

\* The number of definitions in all the manifests of one directory.
MaxDefs == 3
\* The number of elements of the local list base the model records; the
\* list itself is unbounded in the code.  Larger than any acyclic chain.
MaxChain == 4
\* The number of style entries of one version block of an item definition.
MaxSty == 2
\* The number of definitions of a directory that is loaded twice.
MaxTwice == 2
\* The number of calls of png and png_wx in one process.
MaxCalls == 2
\* The number of definitions of a package of voice, skybox, goo, music and
\* item blocks.
MaxConf == 1
\* The number of overrides merged into one original.
MaxOver == 2
\* The number of definitions of a directory that one process loads twice.
MaxAgain == 2

None == "None"

\* obj_types, in the order the dict literal lists them.
obj_types == <<"Style", "Item", "QuotePack", "Skybox", "Goo", "Music", "StyleVar">>

TypeSet == {obj_types[k] : k \in DOMAIN obj_types}

\* The package ids of the archives of a directory, by position.
PakIds == <<"p1", "p2">>

StyleIds == {"A", "B", "C"}
Folders == {"f1", "f2"}

\* The item folders the archives of a directory hold, by position: the
\* second archive lacks items/f1.
FoldersOf == <<{"f1", "f2"}, {"f2"}>>

---------------------------------------------------------------------------
(* Sequences as Python lists and dicts *)

RECURSIVE Concat(_)
Concat(ss) == IF ss = <<>> THEN <<>> ELSE Head(ss) \o Concat(Tail(ss))

\* Sequences over S of length at most n.
SeqUpTo(S, n) == UNION {[1..k -> S] : k \in 0..n}

\* key in d, for a dict d of entries with a field id
HasKey(d, id) == \E k \in DOMAIN d : d[k].id = id

\* d[id]
Lookup(d, id) == d[CHOOSE k \in DOMAIN d : d[k].id = id]

\* d[e.id] = e: a new key goes to the end, an old key keeps its place
DictSet(d, e) ==
    IF HasKey(d, e.id)
    THEN [k \in DOMAIN d |-> IF d[k].id = e.id THEN e ELSE d[k]]
    ELSE Append(d, e)

---------------------------------------------------------------------------
(* The inputs: manifest nodes, archives, directories *)

\* A definition block of a manifest: its category, its id field, its
\* overrideOrig flag ('1' is TRUE), the base field of a Style block
\* ('NONE' or absent is None) and the version blocks of an Item block, each
\* the children of its styles blocks in order (name: style id, value:
\* folder).
Node(type, id, over, b, vers) ==
    [type |-> type, id |-> id, over |-> over, base |-> b, vers |-> vers]

Sty(name, value) == [name |-> name, value |-> value]

\* The definition blocks the manifests of a directory are built from.
Nodes ==
    { Node("Style", "A", FALSE, None, <<>>),
      Node("Style", "A", TRUE, None, <<>>),
      Node("Style", "B", FALSE, "A", <<>>),
      Node("Item", "I", FALSE, None, << <<Sty("A", "f1")>> >>),
      Node("Item", "I", TRUE, None, << <<Sty("A", "f2")>> >>) }

\* The entry names of an archive besides its manifest and definition files.
ResNames == <<"resources/BEE2/icon.png">>

\* A package archive with a manifest: entry k of the directory, requiring
\* the packages pre, declaring defs.
GoodZip(k, pre, defs) ==
    [kind |-> "zip", info |-> TRUE, id |-> PakIds[k], pre |-> pre,
     defs |-> defs, names |-> <<"info.txt">> \o ResNames,
     folders |-> FoldersOf[k]]

\* An archive whose info.txt has no ID key.
NoIdZip(k) ==
    [kind |-> "zip", info |-> TRUE, id |-> None, pre |-> <<>>,
     defs |-> <<>>, names |-> <<"info.txt">> \o ResNames, folders |-> {}]

\* An archive without info.txt.
BadZip(k) ==
    [kind |-> "zip", info |-> FALSE, id |-> PakIds[k], pre |-> <<>>,
     defs |-> <<>>, names |-> ResNames, folders |-> {}]

\* A directory entry that is no zip file (or is a directory).
NoZip(k) ==
    [kind |-> "other", info |-> FALSE, id |-> PakIds[k], pre |-> <<>>,
     defs |-> <<>>, names |-> <<>>, folders |-> {}]

\* The package a package may name as its prerequisite: p1 may require p2,
\* p2 may require p0, which no archive of the directory provides.
Requires == <<"p2", "p0">>

\* The entries position k of a directory can hold, given its definitions.
Entries(k, defs) ==
    {GoodZip(k, pre, defs) : pre \in {<<>>, <<Requires[k]>>}}
        \cup (IF defs = <<>> THEN {BadZip(k), NoZip(k), NoIdZip(k)} ELSE {})

\* The directories of archives declaring d1 and d2: one entry when d2 is
\* empty, or two.
DirsOf(d1, d2) ==
    { <<e1, e2>> : e1 \in Entries(1, d1), e2 \in Entries(2, d2) }
        \cup (IF d2 = <<>> THEN { <<e1>> : e1 \in Entries(1, d1) } ELSE {})

---------------------------------------------------------------------------
(* The category parsers *)

\* A search that yields the blocks of a category last to first.
find_all_reversed(info, type) ==
    LET found == SelectSeq(info.defs, LAMBDA n : n.type = type)
    IN  [k \in DOMAIN found |-> found[Len(found) + 1 - k]]

\* Property.find_all(info, comp_type)
find_all(info, type) == SelectSeq(info.defs, LAMBDA n : n.type = type)

\* What Item.parse reads from items/<fold>/ of an archive.
FolderData(fold) == [fold |-> fold]

\* The def_style of a version that declares no style: None.
NoData == [fold |-> None]

\* Style.parse: the fields of the Style the resolver reads; bases is set by
\* setup_style_tree (<<>>: not set yet).
Style_parse(zip, id, info) ==
    [err |-> "none",
     obj |-> [id |-> id, base_style |-> info.base, bases |-> <<>>]]

\* Item.parse, lines 219-233: the vals dict of one version block: styles
\* maps style id to folder (a repeated key keeps its place and takes the
\* later value), def_style is the first folder of the block.
RECURSIVE StylesDict(_, _)
StylesDict(stys, d) ==
    IF stys = <<>> THEN d
    ELSE StylesDict(Tail(stys),
                    DictSet(d, [id |-> Head(stys).name, val |-> Head(stys).value]))

Vals(ver) ==
    [styles |-> StylesDict(ver, <<>>),
     def_style |-> IF ver = <<>> THEN None ELSE ver[1].value]

\* Item.parse, lines 260-264: rewrite one version from folder ids to folder
\* data.  Line 262 reads vals, the dict of the LAST version block, which is
\* still raw when an earlier version is rewritten.
RewriteDef(ver, vals) ==
    IF ver.def_style # None THEN FolderData(vals.def_style) ELSE NoData

RewriteVer(ver, vals) ==
    [styles |-> [k \in DOMAIN ver.styles |->
                    [id |-> ver.styles[k].id, val |-> FolderData(ver.styles[k].val)]],
     def_style |-> RewriteDef(ver, vals)]

Item_parse(zip, id, info) ==
    LET versions == [k \in DOMAIN info.vers |-> Vals(info.vers[k])]
        used     == UNION {{info.vers[k][j].value : j \in DOMAIN info.vers[k]} :
                        k \in DOMAIN info.vers}
        vals     == versions[Len(versions)]
    IN  IF ~(used \subseteq dir[zip].folders)
        THEN [err |-> "IOError", obj |-> None]         \* line 258
        ELSE IF \E k \in DOMAIN versions :
                    versions[k].def_style # None /\ vals.def_style = None
        THEN [err |-> "KeyError", obj |-> None]        \* line 262: folders[None]
        ELSE [err |-> "none",
              obj |-> [id |-> id,
                       versions |-> [k \in DOMAIN versions |->
                                        RewriteVer(versions[k], vals)]]]

\* The name of an archive entry: directory, file name, extension.
Entry(folder, file, ext) == <<folder, file, ext>>

\* path in zip.namelist()
InZip(zip, path) == \E k \in DOMAIN dir[zip].names : dir[zip].names[k] = path

\* Property.parse of the entry path: the properties of that file.
Content(path) == <<[file |-> path]>>

\* value.strip()
Strip(val) == CASE val = " b " -> "b" [] val = " " -> "" [] OTHER -> val

\* sep_values(str, delimiter), lines 444-446, on the pieces of str between
\* the delimiters: stripped, the empty ones left out
sep_values(pieces) ==
    SelectSeq([k \in DOMAIN pieces |-> Strip(pieces[k])], LAMBDA v : v # "")

\* Voice.parse, lines 287-292: the entry is opened whether it is there or
\* not, and zip.open raises KeyError for a name that is no entry
Voice_parse(zip, id, info) ==
    LET path == Entry("voice/", info.file, ".voice")
    IN  IF InZip(zip, path)
        THEN [err |-> "none",
              obj |-> [id |-> id, auth |-> sep_values(info.authors),
                       config |-> Content(path)]]
        ELSE [err |-> "KeyError", obj |-> None]

\* Skybox.parse, lines 314-327: the path tested is built from the display
\* name, and the entry opened is the display name itself
Skybox_parse(zip, id, info) ==
    LET path == Entry("skybox/", info.name, ".cfg")
        name == Entry("", info.name, "")
    IN  IF info.config = "" \/ ~InZip(zip, path)
        THEN [err |-> "none",
              obj |-> [id |-> id, auth |-> sep_values(info.authors),
                       config |-> <<>>]]
        ELSE IF InZip(zip, name)
        THEN [err |-> "none",
              obj |-> [id |-> id, auth |-> sep_values(info.authors),
                       config |-> Content(name)]]
        ELSE [err |-> "KeyError", obj |-> None]

\* Goo.parse, lines 352-363
Goo_parse(zip, id, info) ==
    LET config_dir == Entry("goo/", info.config, "")
    IN  [err |-> "none",
         obj |-> [id |-> id, auth |-> sep_values(info.authors),
                  config |-> IF InZip(zip, config_dir)
                             THEN Content(config_dir) ELSE <<>>]]

\* Music.parse, lines 387-396
Music_parse(zip, id, info) ==
    LET config_dir == Entry("music/", info.config, "")
    IN  [err |-> "none",
         obj |-> [id |-> id, auth |-> sep_values(info.authors),
                  config |-> IF InZip(zip, config_dir)
                             THEN Content(config_dir) ELSE <<>>]]

\* StyleVar.parse, lines 414-418
StyleVar_parse(zip, id, info) ==
    [err |-> "none",
     obj |-> [id |-> id, name |-> info.name, styles |-> info.styles,
              default |-> info.enabled = "1"]]

\* obj_types[type].parse(zip, id, info), for the categories of the
\* definition blocks of the model
Parse(type, zip, id, info) ==
    CASE type = "Style" -> Style_parse(zip, id, info)
      [] type = "Item" -> Item_parse(zip, id, info)
      [] type = "QuotePack" -> Voice_parse(zip, id, info)
      [] type = "Skybox" -> Skybox_parse(zip, id, info)
      [] type = "Goo" -> Goo_parse(zip, id, info)
      [] type = "Music" -> Music_parse(zip, id, info)
      [] type = "StyleVar" -> StyleVar_parse(zip, id, info)

\* A handle of an archive that an earlier call of loadAll has closed (lines
\* 99-101): the registry of a later call still holds it.
Closed == 0

\* obj_types[type].parse(zip, id, info) on a closed handle of the archive
\* arch: zip.namelist() still answers, zip.open raises ValueError whatever
\* the name.  Style.parse (line 193) and Voice.parse (line 289) open an
\* entry in every call; Item.parse opens or raises IOError for the first
\* folder its versions name (lines 235-258) and reads no entry when they
\* name none; Skybox.parse, Goo.parse and Music.parse open the entry they
\* have found in namelist(); StyleVar.parse reads no entry.
ParseClosed(type, arch, id, info) ==
    LET raises == [err |-> "ValueError", obj |-> None]
        lists(path) == \E k \in DOMAIN arch.names : arch.names[k] = path
        plain == [err |-> "none",
                  obj |-> [id |-> id, auth |-> sep_values(info.authors),
                           config |-> <<>>]]
        folds == Concat([k \in DOMAIN info.vers |->
                           [j \in DOMAIN info.vers[k] |-> info.vers[k][j].value]])
    IN  CASE type = "Style" -> raises
          [] type = "Item" ->
                IF folds = <<>>
                THEN [err |-> "none",
                      obj |-> [id |-> id,
                               versions |-> [k \in DOMAIN info.vers |->
                                   [styles |-> <<>>, def_style |-> NoData]]]]
                ELSE IF folds[1] \in arch.folders THEN raises
                ELSE [err |-> "IOError", obj |-> None]
          [] type = "QuotePack" -> raises
          [] type = "Skybox" ->
                IF info.config = ""
                   \/ ~lists(Entry("skybox/", info.name, ".cfg"))
                THEN plain ELSE raises
          [] type = "Goo" ->
                IF lists(Entry("goo/", info.config, "")) THEN raises ELSE plain
          [] type = "Music" ->
                IF lists(Entry("music/", info.config, "")) THEN raises ELSE plain
          [] type = "StyleVar" -> StyleVar_parse(Closed, id, info)

\* Skybox.add_over, lines 329-332: sky is no name of the method or of the
\* module, and line 331 raises NameError
Skybox_add_over(self, override) == [err |-> "NameError", obj |-> self]

\* Goo.add_over, lines 365-368
Goo_add_over(self, override) ==
    [err |-> "none",
     obj |-> [self EXCEPT !.config = @ \o override.config,
                          !.auth = @ \o override.auth]]

\* Music.add_over, lines 398-401
Music_add_over(self, override) ==
    [err |-> "none",
     obj |-> [self EXCEPT !.config = @ \o override.config,
                          !.auth = @ \o override.auth]]

\* StyleVar.add_over, lines 420-421
StyleVar_add_over(self, override) ==
    [err |-> "none", obj |-> [self EXCEPT !.styles = @ \o override.styles]]

\* object.add_over(override, zip); Style, Item and Voice do nothing
add_over(type, self, override) ==
    CASE type = "Skybox" -> Skybox_add_over(self, override)
      [] type = "Goo" -> Goo_add_over(self, override)
      [] type = "Music" -> Music_add_over(self, override)
      [] type = "StyleVar" -> StyleVar_add_over(self, override)
      [] OTHER -> [err |-> "none", obj |-> self]

---------------------------------------------------------------------------
(* The state after the module is imported (lines 15-19) *)

EmptyDict == [kind |-> "dict", map |-> <<>>, list |-> <<>>]

\* No image object: None as the error argument of png.
NoImage == [obj |-> -1, size |-> <<0, 0>>]

\* The process has not imported img.py.
ImgNotImported ==
    /\ cached_img_tk = <<>>
    /\ cached_img_wx = <<>>
    /\ filesystem = {}
    /\ img_error = NoImage
    /\ made = 0
    /\ calls = <<>>

Init ==
    /\ dir = <<>>
    /\ load_res = FALSE
    /\ pc = "idle"
    /\ idx = 1
    /\ packages = <<>>
    /\ zips = <<>>
    /\ obj = [t \in TypeSet |-> <<>>]
    /\ obj_override = [t \in TypeSet |-> EmptyDict]
    /\ data = [t \in TypeSet |-> <<>>]
    /\ objects = 0
    /\ events = <<>>
    /\ merges = <<>>
    /\ err = "none"
    /\ seen = <<>>
    /\ styles = <<>>
    /\ b_style = None
    /\ base = <<>>
    /\ declared = <<>>
    /\ first = <<>>
    /\ ImgNotImported

\* loader.length(stage, n) and loader.step(stage)
length(stage, n) == [op |-> "length", stage |-> stage, n |-> n]
step(stage) == [op |-> "step", stage |-> stage, n |-> 1]

treeVars == <<styles, b_style, base, declared>>

---------------------------------------------------------------------------
(* loadAll, lines 21-41: list the directory, open the archives, register   *)
(* the packages                                                            *)

\* lines 23-26, on a directory of one or two entries whose manifests hold
\* max definitions in all
StartWith(max) ==
    /\ pc = "idle"
    /\ \E n \in 0..max : \E a \in 0..n :
       \E d1 \in [1..a -> Nodes], d2 \in [1..(n - a) -> Nodes] :
       \E d \in DirsOf(d1, d2) :
        /\ dir' = d
        /\ events' = Append(events, length("PAK", Len(d)))
    /\ zips' = <<>>
    /\ pc' = "scan"
    /\ idx' = 1
    /\ UNCHANGED <<imgVars, first, load_res, packages, obj, obj_override, data, objects, merges, err,
                   seen, treeVars>>

Start == StartWith(MaxDefs)

\* The tuple line 39 stores in packages; zip and name are the position of
\* the archive in the directory.
Package(k) ==
    [id |-> dir[k].id, zip |-> k, info |-> dir[k], name |-> k,
     dispName |-> dir[k].id]

\* lines 28-31 for an entry that is no zip file
SkipEntry ==
    /\ pc = "scan" /\ idx <= Len(dir)
    /\ dir[idx].kind # "zip"
    /\ idx' = idx + 1
    /\ UNCHANGED <<imgVars, first, dir, load_res, pc, packages, zips, obj, obj_override, data,
                   objects, events, merges, err, seen, treeVars>>

\* lines 32-39 for an archive with info.txt
ReadPackage ==
    /\ pc = "scan" /\ idx <= Len(dir)
    /\ dir[idx].kind = "zip" /\ dir[idx].info /\ dir[idx].id # None
    /\ zips' = Append(zips, [arch |-> idx, open |-> TRUE])
    /\ packages' = DictSet(packages, Package(idx))
    /\ idx' = idx + 1
    /\ UNCHANGED <<imgVars, first, dir, load_res, pc, obj, obj_override, data, objects,
                   events, merges, err, seen, treeVars>>

\* lines 32-37 for an archive whose info.txt has no ID: line 37 gives
\* find_key no default (line 38 does), and the handle is in zips when the
\* required key is found missing
ReadPackageNoId ==
    /\ pc = "scan" /\ idx <= Len(dir)
    /\ dir[idx].kind = "zip" /\ dir[idx].info /\ dir[idx].id = None
    /\ zips' = Append(zips, [arch |-> idx, open |-> TRUE])
    /\ err' = "MissingField"
    /\ pc' = "finally"
    /\ UNCHANGED <<imgVars, first, dir, load_res, idx, packages, obj, obj_override, data,
                   objects, events, merges, seen, treeVars>>

\* An archive without info.txt that is registered all the same.
ReadBadPackageRegisters ==
    /\ pc = "scan" /\ idx <= Len(dir)
    /\ dir[idx].kind = "zip" /\ ~dir[idx].info
    /\ zips' = Append(zips, [arch |-> idx, open |-> TRUE])
    /\ packages' = DictSet(packages, Package(idx))
    /\ idx' = idx + 1
    /\ UNCHANGED <<imgVars, first, dir, load_res, pc, obj, obj_override, data, objects,
                   events, merges, err, seen, treeVars>>

\* lines 32-34, 40-41 for an archive without info.txt
ReadBadPackage ==
    /\ pc = "scan" /\ idx <= Len(dir)
    /\ dir[idx].kind = "zip" /\ ~dir[idx].info
    /\ zips' = Append(zips, [arch |-> idx, open |-> TRUE])
    /\ idx' = idx + 1
    /\ UNCHANGED <<imgVars, first, dir, load_res, pc, packages, obj, obj_override, data,
                   objects, events, merges, err, seen, treeVars>>

\* lines 43-48
ResetTables ==
    /\ pc = "scan" /\ idx > Len(dir)
    /\ obj' = [t \in TypeSet |-> <<>>]
    /\ obj_override' = [t \in TypeSet |-> EmptyDict]
    /\ data' = [t \in TypeSet |-> <<>>]
    /\ objects' = 0
    /\ pc' = "collect"
    /\ idx' = 1
    /\ UNCHANGED <<imgVars, first, dir, load_res, packages, zips, events, merges, err, seen,
                   treeVars>>

---------------------------------------------------------------------------
(* parse_package, lines 105-128 *)

\* id in obj_override[comp_type] (lines 120 and 68): a key of the dict; once
\* line 123 has made it a list of (zip, object) tuples, no id equals an
\* element.
InOverride(o, id) == o.kind = "dict" /\ HasKey(o.map, id)

\* line 127: obj[comp_type][id] = (zip, object, pak_id, dispName)
RecordOriginal(st, zip, node, pak_id, dispName) ==
    [st EXCEPT !.obj[node.type] =
        DictSet(@, [id |-> node.id, zip |-> zip, node |-> node,
                    pak_id |-> pak_id, dispName |-> dispName])]

\* A duplicate that replaces the recorded original.
DefinedTwiceReplaces(st, zip, node, pak_id, dispName) ==
    [st EXCEPT !.obj[node.type] =
        DictSet(@, [id |-> node.id, zip |-> zip, node |-> node,
                    pak_id |-> pak_id, dispName |-> dispName])]

\* line 125: the second definition is reported, nothing is stored
DefinedTwice(st, zip, node, pak_id, dispName) == st

\* lines 120-123: an override of a recorded id
RecordOverride(st, zip, node) ==
    LET o == st.over[node.type]
        e == [zip |-> zip, node |-> node]
    IN  IF InOverride(o, node.id)
        THEN IF o.kind = "dict"
             THEN [st EXCEPT !.err = "AttributeError"]   \* a dict has no append
             ELSE [st EXCEPT !.over[node.type].list = Append(@, e)]
        ELSE [st EXCEPT !.over[node.type] =
                [kind |-> "list", map |-> <<>>, list |-> <<e>>]]

\* lines 115-127 for one definition block
CollectOne(st, zip, node, pak_id, dispName) ==
    LET st1 == [st EXCEPT !.objects = @ + 1,
                          !.seen = Append(@, [node |-> node, pak |-> pak_id,
                                              zip |-> zip])]
    IN  IF HasKey(st.obj[node.type], node.id)
        THEN IF node.over
             THEN RecordOverride(st1, zip, node)
             ELSE DefinedTwice(st1, zip, node, pak_id, dispName)
        ELSE RecordOriginal(st1, zip, node, pak_id, dispName)

\* lines 113-127: the blocks of one package, category by category in the
\* order of obj_types, each category in manifest order; an exception ends
\* the loops.
RECURSIVE CollectAll(_, _, _, _, _)
CollectAll(st, zip, nodes, pak_id, dispName) ==
    IF nodes = <<>> \/ st.err # "none" THEN st
    ELSE CollectAll(CollectOne(st, zip, Head(nodes), pak_id, dispName),
                    zip, Tail(nodes), pak_id, dispName)

ByCategory(info) ==
    Concat([k \in DOMAIN obj_types |-> find_all(info, obj_types[k])])

\* A check that accepts every package.
MissingPrerequisiteNever(info) == FALSE

\* lines 107-110: some prerequisite is not a key of packages
MissingPrerequisite(info) ==
    \E k \in DOMAIN info.pre : ~HasKey(packages, info.pre[k])

\* parse_package(zip, info, filename, pak_id, dispName): the tables after
\* the call, the value returned (objects) and the exception raised (err)
parse_package(zip, info, pak_id, dispName) ==
    LET st0 == [obj |-> obj, over |-> obj_override, objects |-> 0,
                err |-> "none", seen |-> seen]
    IN  IF MissingPrerequisite(info)
        THEN st0                                         \* return False
        ELSE CollectAll(st0, zip, ByCategory(info), pak_id, dispName)

---------------------------------------------------------------------------
(* loadAll, lines 50-58: collect the definitions of every package *)

\* lines 50-55 for one package of the registry
ScanPackage ==
    /\ pc = "collect" /\ idx <= Len(packages)
    /\ LET p == packages[idx]
           r == parse_package(p.zip, p.info, p.id, p.dispName)
       IN  /\ obj' = r.obj
           /\ obj_override' = r.over
           /\ seen' = r.seen
           /\ err' = r.err
           /\ IF r.err = "none"
              THEN /\ objects' = objects + r.objects
                   /\ events' = Append(events, step("PAK"))
                   /\ idx' = idx + 1
                   /\ pc' = pc
              ELSE /\ pc' = "finally"
                   /\ UNCHANGED <<imgVars, first, objects, events, idx>>
    /\ UNCHANGED <<imgVars, first, dir, load_res, packages, zips, data, merges, treeVars>>

\* The (type, id) pairs of the loops of lines 60-61, in their order: the
\* categories in the key order of obj, the ids in insertion order.
ParseList ==
    Concat([k \in DOMAIN obj_types |->
              [j \in DOMAIN obj[obj_types[k]] |->
                  [type |-> obj_types[k], ent |-> obj[obj_types[k]][j]]]])

\* lines 57-58
Announce ==
    /\ pc = "collect" /\ idx > Len(packages)
    /\ events' = events \o <<length("OBJ", objects),
                             length("IMG", objects - Len(obj["StyleVar"]))>>
    /\ pc' = "parse"
    /\ idx' = 1
    /\ UNCHANGED <<imgVars, first, dir, load_res, packages, zips, obj, obj_override, data,
                   objects, merges, err, seen, treeVars>>

---------------------------------------------------------------------------
(* loadAll, lines 60-72: parse every original, merge its overrides *)

\* lines 66-67
WithPackage(object, ent) ==
    object @@ [pak_id |-> ent.pak_id, pak_name |-> ent.dispName]

\* lines 68-70: for over, zip in obj_override[type][id].  The tuples
\* parse_package stores are (zip, object), so over is the archive and
\* over[0] raises TypeError before add_over is called.
ApplyOverrides(type, id) ==
    LET o == obj_override[type]
    IN  IF InOverride(o, id) /\ Lookup(o.map, id).list # <<>>
        THEN [err |-> "TypeError", calls |-> <<>>]
        ELSE [err |-> "none", calls |-> <<>>]

\* lines 62-72 for one (type, id)
ParseObject ==
    /\ pc = "parse" /\ idx <= Len(ParseList)
    /\ LET type == ParseList[idx].type
           ent  == ParseList[idx].ent
           r    == IF ent.zip = Closed
                   THEN ParseClosed(type, Lookup(packages, ent.pak_id).info,
                                    ent.id, ent.node)
                   ELSE Parse(type, ent.zip, ent.id, ent.node)
           m    == ApplyOverrides(type, ent.id)
           e    == IF obj_override[type].kind # "dict"
                   THEN "AttributeError"              \* line 63: a list has no get
                   ELSE IF r.err # "none" THEN r.err
                   ELSE m.err
       IN  /\ err' = e
           /\ IF e = "none"
              THEN /\ data' = [data EXCEPT ![type] =
                                  Append(@, WithPackage(r.obj, ent))]
                   /\ merges' = merges \o m.calls
                   /\ events' = Append(events, step("OBJ"))
                   /\ idx' = idx + 1
                   /\ pc' = pc
              ELSE /\ pc' = "finally"
                   /\ UNCHANGED <<imgVars, first, data, merges, events, idx>>
    /\ UNCHANGED <<imgVars, first, dir, load_res, packages, zips, obj, obj_override, objects,
                   seen, treeVars>>

---------------------------------------------------------------------------
(* loadAll, lines 73-97: extract the resources *)

\* The (zip, path) pairs of the loops of lines 78-79.
ResList ==
    Concat([k \in DOMAIN zips |->
              [j \in DOMAIN dir[zips[k].arch].names |->
                  [zip |-> zips[k].arch, path |-> dir[zips[k].arch].names[j]]]])

\* lines 74-77
ExtractStart ==
    /\ pc = "parse" /\ idx > Len(ParseList)
    /\ load_res' = TRUE
    /\ events' = Append(events, length("RES", Len(ResList)))
    /\ pc' = "res"
    /\ idx' = 1
    /\ UNCHANGED <<imgVars, first, dir, packages, zips, obj, obj_override, data,
                   objects, merges, err, seen, treeVars>>

\* lines 79-85 for one path
ExtractStep ==
    /\ pc = "res" /\ idx <= Len(ResList)
    /\ events' = Append(events, step("RES"))
    /\ idx' = idx + 1
    /\ UNCHANGED <<imgVars, first, dir, load_res, pc, packages, zips, obj, obj_override, data,
                   objects, merges, err, seen, treeVars>>

\* line 82 or 84 when zip.extract cannot write the entry to cache/
ExtractFails ==
    /\ pc = "res" /\ idx <= Len(ResList)
    /\ err' = "OSError"
    /\ pc' = "finally"
    /\ UNCHANGED <<imgVars, first, dir, load_res, idx, packages, zips, obj, obj_override,
                   data, objects, events, merges, seen, treeVars>>

\* lines 86-94: the cache directories are moved into place
ExtractEnd ==
    /\ pc = "res" /\ idx > Len(ResList)
    /\ pc' = "finally"
    /\ UNCHANGED <<imgVars, first, dir, load_res, idx, packages, zips, obj, obj_override,
                   data, objects, events, merges, err, seen, treeVars>>

\* A skipped extraction that steps the stage before announcing it.
SkipExtractStepFirst ==
    /\ pc = "parse" /\ idx > Len(ParseList)
    /\ load_res' = FALSE
    /\ events' = events \o <<step("RES"), length("RES", 1)>>
    /\ pc' = "finally"
    /\ UNCHANGED <<imgVars, first, dir, idx, packages, zips, obj, obj_override,
                   data, objects, merges, err, seen, treeVars>>

\* lines 95-97
SkipExtract ==
    /\ pc = "parse" /\ idx > Len(ParseList)
    /\ load_res' = FALSE
    /\ events' = events \o <<length("RES", 1), step("RES")>>
    /\ pc' = "finally"
    /\ UNCHANGED <<imgVars, first, dir, idx, packages, zips, obj, obj_override,
                   data, objects, merges, err, seen, treeVars>>

\* A finally block that closes the archives of a load that raised nothing.
FinallyOnSuccess ==
    /\ pc = "finally"
    /\ zips' = IF err = "none"
               THEN [k \in DOMAIN zips |-> [zips[k] EXCEPT !.open = FALSE]]
               ELSE zips
    /\ pc' = IF err = "none" THEN "tree" ELSE "raised"
    /\ UNCHANGED <<imgVars, first, dir, load_res, idx, packages, obj, obj_override, data,
                   objects, events, merges, err, seen, treeVars>>

\* lines 99-101: close every archive; an exception goes on to the caller,
\* otherwise line 102 calls setup_style_tree(data)
Finally ==
    /\ pc = "finally"
    /\ zips' = [k \in DOMAIN zips |-> [zips[k] EXCEPT !.open = FALSE]]
    /\ pc' = IF err = "none" THEN "tree" ELSE "raised"
    /\ UNCHANGED <<imgVars, first, dir, load_res, idx, packages, obj, obj_override, data,
                   objects, events, merges, err, seen, treeVars>>

---------------------------------------------------------------------------
(* setup_style_tree, lines 130-159 *)

\* lines 132-135: styles[style.id] = style, an entry holding the position
\* of the Style object in data['Style']
RECURSIVE IndexStyles(_, _)
IndexStyles(k, d) ==
    IF k > Len(data["Style"]) THEN d
    ELSE IndexStyles(k + 1, DictSet(d, [id |-> data["Style"][k].id, ref |-> k]))

\* styles.get(id, None), as the id of the style found
StylesGet(id) == IF HasKey(styles, id) THEN id ELSE None

\* the Style object styles[id]
StyleObj(id) == data["Style"][Lookup(styles, id).ref]

TreeIndex ==
    /\ pc = "tree"
    /\ styles' = IndexStyles(1, <<>>)
    /\ declared' = data["Item"]
    /\ pc' = "chain_next"
    /\ idx' = 1
    /\ UNCHANGED <<imgVars, first, dir, load_res, packages, zips, obj, obj_override, data,
                   objects, events, merges, err, seen, b_style, base>>

\* lines 136-138: the next style of styles.values()
ChainNext ==
    /\ pc = "chain_next" /\ idx <= Len(styles)
    /\ base' = <<>>
    /\ b_style' = styles[idx].id
    /\ pc' = "chain_test"
    /\ UNCHANGED <<imgVars, first, dir, load_res, idx, packages, zips, obj, obj_override,
                   data, objects, events, merges, err, seen, styles, declared>>

\* line 139 when b_style is a style: enter the loop body
ChainTest ==
    /\ pc = "chain_test" /\ b_style # None
    /\ pc' = "chain_body"
    /\ UNCHANGED <<imgVars, first, dir, load_res, idx, packages, zips, obj, obj_override,
                   data, objects, events, merges, err, seen, treeVars>>

\* A lookup that never finds the base: every chain is the style alone.
NextBaseNone(id) == None

\* lines 141-142.  The list base grows with every iteration; the model
\* records its first MaxChain elements.
NextBase(id) == StylesGet(StyleObj(id).base_style)

ChainBody ==
    /\ pc = "chain_body"
    /\ base' = IF Len(base) < MaxChain THEN Append(base, b_style) ELSE base
    /\ b_style' = NextBase(b_style)
    /\ pc' = "chain_test"
    /\ UNCHANGED <<imgVars, first, dir, load_res, idx, packages, zips, obj, obj_override,
                   data, objects, events, merges, err, seen, styles, declared>>

\* line 139 when b_style is None, line 145: style.bases = base[:]
ChainStore ==
    /\ pc = "chain_test" /\ b_style = None
    /\ data' = [data EXCEPT !["Style"][styles[idx].ref].bases = base]
    /\ idx' = idx + 1
    /\ pc' = "chain_next"
    /\ UNCHANGED <<imgVars, first, dir, load_res, packages, zips, obj, obj_override, objects,
                   events, merges, err, seen, treeVars>>

\* The (item, version, style) triples of the loops of lines 148-150.
FillList ==
    Concat([i \in DOMAIN data["Item"] |->
        Concat([v \in DOMAIN data["Item"][i].versions |->
            [s \in DOMAIN styles |-> [item |-> i, vers |-> v, sty |-> s]]])])

ChainEnd ==
    /\ pc = "chain_next" /\ idx > Len(styles)
    /\ pc' = "fill"
    /\ idx' = 1
    /\ UNCHANGED <<imgVars, first, dir, load_res, packages, zips, obj, obj_override, data,
                   objects, events, merges, err, seen, treeVars>>

\* A scan of bases that lets the furthest ancestor with data win.
RECURSIVE FromBasesFurthest(_, _)
FromBasesFurthest(vers, bases) ==
    IF bases = <<>> THEN vers.def_style
    ELSE IF HasKey(vers.styles, bases[Len(bases)])
         THEN Lookup(vers.styles, bases[Len(bases)]).val
         ELSE FromBasesFurthest(vers, SubSeq(bases, 1, Len(bases) - 1))

\* A scan of bases that falls back to the first entry of styles instead of
\* def_style.
RECURSIVE FromBasesFirstEntry(_, _)
FromBasesFirstEntry(vers, bases) ==
    IF bases = <<>>
    THEN IF vers.styles = <<>> THEN vers.def_style ELSE vers.styles[1].val
    ELSE IF HasKey(vers.styles, Head(bases))
         THEN Lookup(vers.styles, Head(bases)).val
         ELSE FromBasesFirstEntry(vers, Tail(bases))

\* lines 152-159: the data of the first style of bases that vers has data
\* for, or the data of def_style
RECURSIVE FromBases(_, _)
FromBases(vers, bases) ==
    IF bases = <<>> THEN vers.def_style
    ELSE IF HasKey(vers.styles, Head(bases))
         THEN Lookup(vers.styles, Head(bases)).val
         ELSE FromBases(vers, Tail(bases))

\* A fill without the else branch of line 157: no ancestor, no entry.
InheritNoDefault(vers, id, bases) ==
    IF HasKey(vers.styles, id) \/ \A k \in DOMAIN bases : ~HasKey(vers.styles, bases[k])
    THEN vers
    ELSE [vers EXCEPT !.styles =
            DictSet(@, [id |-> id, val |-> vers.def_style])]

\* A fill that gives every style the data of its nearest ancestor with
\* data, whether the version has data for the style itself or not.
InheritOverwrites(vers, id, bases) ==
    [vers EXCEPT !.styles =
        DictSet(@, [id |-> id, val |-> FromBases(vers, Tail(bases))])]

\* lines 151-159 for one version and one style
Inherit(vers, id, bases) ==
    IF HasKey(vers.styles, id) THEN vers
    ELSE [vers EXCEPT !.styles =
            DictSet(@, [id |-> id, val |-> FromBases(vers, bases)])]

FillStep ==
    /\ pc = "fill" /\ idx <= Len(FillList)
    /\ LET f  == FillList[idx]
           id == styles[f.sty].id
       IN  data' = [data EXCEPT !["Item"][f.item].versions[f.vers] =
                       Inherit(@, id, StyleObj(id).bases)]
    /\ idx' = idx + 1
    /\ UNCHANGED <<imgVars, first, dir, load_res, pc, packages, zips, obj, obj_override,
                   objects, events, merges, err, seen, treeVars>>

\* line 103: return data
Return ==
    /\ pc = "fill" /\ idx > Len(FillList)
    /\ pc' = "done"
    /\ UNCHANGED <<imgVars, first, dir, load_res, idx, packages, zips, obj, obj_override,
                   data, objects, events, merges, err, seen, treeVars>>

TreeNext ==
    \/ TreeIndex \/ ChainNext \/ ChainTest \/ ChainBody \/ ChainStore
    \/ ChainEnd \/ FillStep \/ Return

Next ==
    \/ Start \/ SkipEntry \/ ReadPackage \/ ReadPackageNoId \/ ReadBadPackage
    \/ ResetTables \/ ScanPackage \/ Announce \/ ParseObject
    \/ ExtractStart \/ ExtractStep \/ ExtractFails \/ ExtractEnd
    \/ SkipExtract \/ Finally
    \/ TreeIndex \/ ChainNext \/ ChainTest \/ ChainBody \/ ChainStore
    \/ ChainEnd \/ FillStep \/ Return

Spec == Init /\ [][Next]_vars

---------------------------------------------------------------------------
(* The same directory loaded by two processes, one after the other *)

\* A listing of the directory in the opposite order.
ListAgainReversed == [k \in DOMAIN dir |-> dir[Len(dir) + 1 - k]]

\* line 24 in the second process: os.listdir on the unchanged directory
ListAgain == dir

\* The first process has returned; a second one imports the module (lines
\* 15-19) and calls loadAll on the same directory (lines 23-26).
Restart ==
    /\ pc = "done" /\ first = <<>>
    /\ first' = <<data>>
    /\ dir' = ListAgain
    /\ events' = <<length("PAK", Len(dir))>>
    /\ pc' = "scan"
    /\ idx' = 1
    /\ load_res' = FALSE
    /\ packages' = <<>>
    /\ zips' = <<>>
    /\ obj' = [t \in TypeSet |-> <<>>]
    /\ obj_override' = [t \in TypeSet |-> EmptyDict]
    /\ data' = [t \in TypeSet |-> <<>>]
    /\ objects' = 0
    /\ merges' = <<>>
    /\ err' = "none"
    /\ seen' = <<>>
    /\ styles' = <<>>
    /\ b_style' = None
    /\ base' = <<>>
    /\ declared' = <<>>
    /\ UNCHANGED imgVars

TwiceStart == StartWith(MaxTwice)

TwiceNext ==
    \/ TwiceStart \/ Restart
    \/ SkipEntry \/ ReadPackage \/ ReadPackageNoId \/ ReadBadPackage
    \/ ResetTables \/ ScanPackage \/ Announce \/ ParseObject
    \/ ExtractStart \/ ExtractStep \/ ExtractFails \/ ExtractEnd
    \/ SkipExtract \/ Finally
    \/ TreeIndex \/ ChainNext \/ ChainTest \/ ChainBody \/ ChainStore
    \/ ChainEnd \/ FillStep \/ Return

TwiceSpec == Init /\ [][TwiceNext]_vars

---------------------------------------------------------------------------
(* loadAll called twice by one process *)

\* The listing without its entry k.
Without(d, k) == SubSeq(d, 1, k - 1) \o SubSeq(d, k + 1, Len(d))

\* line 24 in the later call: the directory is as it was, or one of its
\* entries has been removed since.
ListLater == {dir} \cup {Without(dir, k) : k \in DOMAIN dir}

\* The earlier call has returned or raised and the same process calls
\* loadAll again (lines 23-26).  packages, obj, obj_override and data are
\* module variables (lines 15-19) and keep what the earlier call left in
\* them; the handles in packages were closed by its finally block.  zips,
\* objects and the variables of setup_style_tree are locals.
Again ==
    /\ pc \in {"done", "raised"} /\ first = <<>>
    /\ first' = <<data>>
    /\ \E d \in ListLater :
        /\ dir' = d
        /\ events' = <<length("PAK", Len(d))>>
    /\ packages' = [k \in DOMAIN packages |-> [packages[k] EXCEPT !.zip = Closed]]
    /\ zips' = <<>>
    /\ pc' = "scan"
    /\ idx' = 1
    /\ load_res' = FALSE
    /\ objects' = 0
    /\ merges' = <<>>
    /\ err' = "none"
    /\ seen' = <<>>
    /\ styles' = <<>>
    /\ b_style' = None
    /\ base' = <<>>
    /\ declared' = <<>>
    /\ UNCHANGED <<imgVars, obj, obj_override, data>>

AgainStart == StartWith(MaxAgain)

AgainNext ==
    \/ AgainStart \/ Again
    \/ SkipEntry \/ ReadPackage \/ ReadPackageNoId \/ ReadBadPackage
    \/ ResetTables \/ ScanPackage \/ Announce \/ ParseObject
    \/ ExtractStart \/ ExtractStep \/ ExtractFails \/ ExtractEnd
    \/ SkipExtract \/ Finally
    \/ TreeIndex \/ ChainNext \/ ChainTest \/ ChainBody \/ ChainStore
    \/ ChainEnd \/ FillStep \/ Return

AgainSpec == Init /\ [][AgainNext]_vars

---------------------------------------------------------------------------
(* loadAll on one package of voice, skybox, goo, music and item blocks *)

\* A QuotePack, Skybox, Goo or Music block: its name field, its file field
\* (QuotePack) and its config field ("": absent); no authors field, which
\* reads as the empty string.
ConfNode(type, id, name, file, config) ==
    [type |-> type, id |-> id, over |-> FALSE, base |-> None, vers |-> <<>>,
     name |-> name, file |-> file, config |-> config, authors |-> <<"">>]

ConfTypes == {"QuotePack", "Skybox", "Goo", "Music"}

\* The blocks of the package: a block of each of the four categories with
\* and without a config field, and two Item blocks of two versions.
ParseNodes ==
    { ConfNode(t, "X", "n", "c", config) : t \in ConfTypes, config \in {"", "c"} }
        \cup { Node("Item", "I", FALSE, None,
                    << <<Sty("A", "f1")>>, <<Sty("B", "f2")>> >>),
               Node("Item", "I", FALSE, None,
                    << <<Sty("A", "f1"), Sty("B", "f2")>>, <<>> >>) }

\* The entries the archive may hold besides info.txt and its item folders.
ConfEntries ==
    << Entry("voice/", "c", ".voice"), Entry("skybox/", "c", ".cfg"),
       Entry("skybox/", "n", ".cfg"), Entry("", "n", ""),
       Entry("goo/", "c", ""), Entry("music/", "c", "") >>

\* The archive of the package, holding the entries held.
ParseZip(defs, held) ==
    [kind |-> "zip", info |-> TRUE, id |-> PakIds[1], pre |-> <<>>,
     defs |-> defs,
     names |-> <<Entry("", "info", ".txt")>>
                  \o SelectSeq(ConfEntries, LAMBDA e : e \in held),
     folders |-> FoldersOf[1]]

\* lines 23-26, on the directory of that one archive
ParseStart ==
    /\ pc = "idle"
    /\ \E n \in 1..MaxConf : \E defs \in [1..n -> ParseNodes] :
       \E held \in SUBSET {ConfEntries[k] : k \in DOMAIN ConfEntries} :
        /\ dir' = <<ParseZip(defs, held)>>
        /\ events' = Append(events, length("PAK", 1))
    /\ zips' = <<>>
    /\ pc' = "scan"
    /\ idx' = 1
    /\ UNCHANGED <<imgVars, first, load_res, packages, obj, obj_override, data,
                   objects, merges, err, seen, treeVars>>

\* The steps of loadAll and of setup_style_tree on such a directory.
ParseNext ==
    \/ ParseStart \/ ReadPackage \/ ResetTables \/ ScanPackage \/ Announce
    \/ ParseObject \/ ExtractStart \/ ExtractStep \/ ExtractFails
    \/ ExtractEnd \/ SkipExtract \/ Finally
    \/ TreeIndex \/ ChainEnd \/ Return

ParseSpec == Init /\ [][ParseNext]_vars

---------------------------------------------------------------------------
(* add_over on the parsed objects of a skybox, goo, music or style         *)
(* variable block                                                          *)

\* A StyleVar block: its name, the values of its Style children, its
\* enabled field.
StyleVarNode(id, name, style_ids, enabled) ==
    [type |-> "StyleVar", id |-> id, over |-> FALSE, base |-> None,
     vers |-> <<>>, name |-> name, styles |-> style_ids, enabled |-> enabled]

MergeTypes == {"Skybox", "Goo", "Music", "StyleVar"}

\* The authors fields of the blocks, as their pieces between commas.
AuthorFields == {<<"">>, <<"a">>, <<" b ", "">>}

\* The blocks the original and its overrides are parsed from.
MergeNodes ==
    { [ConfNode(t, "X", "n", "c", config) EXCEPT !.authors = a] :
        t \in {"Skybox", "Goo", "Music"}, config \in {"", "c"},
        a \in AuthorFields }
      \cup { StyleVarNode("X", "n", style_ids, "0") :
                style_ids \in {<<>>, <<"A">>, <<"B", "C">>} }

\* The state at line 68 of a load of one archive, with the original of one
\* block parsed (lines 65-67).
MergeInit ==
    /\ \E node \in MergeNodes :
        /\ dir = <<ParseZip(<<node>>, {ConfEntries[k] : k \in DOMAIN ConfEntries})>>
        /\ data = [t \in TypeSet |->
                     IF t = node.type
                     THEN <<WithPackage(Parse(t, 1, node.id, node).obj,
                                        [pak_id |-> PakIds[1],
                                         dispName |-> PakIds[1]])>>
                     ELSE <<>>]
    /\ load_res = FALSE
    /\ pc = "merge"
    /\ idx = 1
    /\ packages = <<>>
    /\ zips = <<>>
    /\ obj = [t \in TypeSet |-> <<>>]
    /\ obj_override = [t \in TypeSet |-> EmptyDict]
    /\ objects = 0
    /\ events = <<>>
    /\ merges = <<>>
    /\ err = "none"
    /\ seen = <<>>
    /\ styles = <<>>
    /\ b_style = None
    /\ base = <<>>
    /\ declared = <<>>
    /\ first = <<>>
    /\ ImgNotImported

\* line 70 for one override of the original: the override is parsed and
\* add_over is called on the original with it
AddOver ==
    /\ pc = "merge" /\ Len(merges) < MaxOver
    /\ \E t \in MergeTypes : \E node \in MergeNodes :
        /\ data[t] # <<>> /\ node.type = t
        /\ LET self     == data[t][1]
               override == Parse(t, 1, node.id, node).obj
               r        == add_over(t, self, override)
           IN  /\ merges' = Append(merges,
                                   [type |-> t, id |-> self.id, zip |-> 1,
                                    self |-> self, override |-> override])
               /\ err' = r.err
               /\ data' = [data EXCEPT ![t][1] = r.obj]
               /\ pc' = IF r.err = "none" THEN pc ELSE "raised"
    /\ UNCHANGED <<imgVars, first, dir, load_res, idx, packages, zips, obj,
                   obj_override, objects, events, seen, treeVars>>

MergeNext == AddOver

MergeSpec == MergeInit /\ [][MergeNext]_vars

---------------------------------------------------------------------------
(* img.py: png and png_wx, the cached image loaders *)

\* A path argument: its name, whether it has upper-case letters, its
\* separator and its extension ("none": the fourth character from the end
\* is no '.').
Path(name, upper, sep, ext) ==
    [name |-> name, upper |-> upper, sep |-> sep, ext |-> ext]

\* line 56-58: casefold, backslashes to slashes, .png added when there is
\* no extension
Normalise(path) ==
    Path(path.name, FALSE, "/", IF path.ext = "none" THEN "png" ELSE path.ext)

\* The paths png is called with: two spellings of one file.
Paths ==
    { Path("items/clean", TRUE, "\\", "none"),
      Path("items/clean", FALSE, "/", "png") }

\* 'BEE2/error', the path of line 188
ErrorPath == Path("bee2/error", TRUE, "/", "none")

\* A resize_to argument: a number or a (width, height) tuple.
Square(n) == [tuple |-> FALSE, w |-> n, h |-> n]
Rect(w, h) == [tuple |-> TRUE, w |-> w, h |-> h]

\* lines 41-45
tuple_size(size) == <<size.w, size.h>>

Sizes == {Square(0), Square(64), Rect(32, 64)}

\* image.size of every file of the filesystem
FileSize == <<64, 64>>

\* The images lines 181-184 make when the module is imported.
BLACK_64 == [obj |-> 0, size |-> <<64, 64>>]
PAL_BG_64 == [obj |-> 2, size |-> <<64, 64>>]

\* The error arguments png is called with.
Errors == {NoImage, PAL_BG_64}

\* _png(path, resize_to, error, algo, cache, conv) in a process whose
\* filesystem holds the paths fs, whose img_error is fallback and that has
\* made n image objects: the value returned, the cache afterwards, whether
\* the filesystem was read, and the number of objects made.
_png(path, resize_to, error, cache, fs, fallback, n) ==
    LET p    == Normalise(path)
        size == tuple_size(resize_to)
        key  == <<p, size[1], size[2]>>
    IN  IF HasKey(cache, key)
        THEN [ret |-> Lookup(cache, key).img, cache |-> cache,
              touched |-> FALSE, made |-> n]                  \* line 63
        ELSE IF p \notin fs
        THEN [ret |-> IF error = NoImage THEN fallback ELSE error,
              cache |-> cache, touched |-> TRUE, made |-> n]  \* line 73
        ELSE LET conv_img ==
                    [obj |-> n,
                     size |-> IF size # <<0, 0>> /\ size # FileSize
                              THEN size ELSE FileSize]
             IN  [ret |-> conv_img,
                  cache |-> DictSet(cache, [id |-> key, img |-> conv_img]),
                  touched |-> TRUE, made |-> n + 1]           \* lines 74-84

\* The state after img.py is imported: lines 21-24, the four squares of
\* lines 181-184 and the call of line 188, on a filesystem that holds some
\* of the files.
ImgInit ==
    /\ \E fs \in SUBSET {Normalise(ErrorPath), Normalise(Path("items/clean", FALSE, "/", "png"))} :
        LET r == _png(ErrorPath, Square(0), BLACK_64, <<>>, fs, NoImage, 4)
        IN  /\ filesystem = fs
            /\ cached_img_tk = r.cache
            /\ img_error = r.ret
            /\ made = r.made
    /\ cached_img_wx = <<>>
    /\ calls = <<>>
    /\ dir = <<>>
    /\ load_res = FALSE
    /\ pc = "idle"
    /\ idx = 1
    /\ packages = <<>>
    /\ zips = <<>>
    /\ obj = [t \in TypeSet |-> <<>>]
    /\ obj_override = [t \in TypeSet |-> EmptyDict]
    /\ data = [t \in TypeSet |-> <<>>]
    /\ objects = 0
    /\ events = <<>>
    /\ merges = <<>>
    /\ err = "none"
    /\ seen = <<>>
    /\ styles = <<>>
    /\ b_style = None
    /\ base = <<>>
    /\ declared = <<>>
    /\ first = <<>>

loaderVars ==
    <<dir, load_res, pc, idx, packages, zips, obj, obj_override, data,
      objects, events, merges, err, seen, styles, b_style, base, declared,
      first>>

\* The record of a call in the history.
Call(fn, path, size, error, r) ==
    [fn |-> fn, path |-> path, size |-> size, error |-> error,
     ret |-> r.ret, touched |-> r.touched]

\* lines 98-109
png ==
    /\ Len(calls) < MaxCalls
    /\ \E path \in Paths, resize_to \in Sizes, error \in Errors :
        LET r == _png(path, resize_to, error, cached_img_tk, filesystem,
                      img_error, made)
        IN  /\ cached_img_tk' = r.cache
            /\ made' = r.made
            /\ calls' = Append(calls, Call("png", path, resize_to, error, r))
    /\ UNCHANGED <<cached_img_wx, filesystem, img_error, loaderVars>>

\* lines 112-122
png_wx ==
    /\ Len(calls) < MaxCalls
    /\ \E path \in Paths, resize_to \in Sizes, error \in Errors :
        LET r == _png(path, resize_to, error, cached_img_wx, filesystem,
                      img_error, made)
        IN  /\ cached_img_wx' = r.cache
            /\ made' = r.made
            /\ calls' = Append(calls, Call("png_wx", path, resize_to, error, r))
    /\ UNCHANGED <<cached_img_tk, filesystem, img_error, loaderVars>>

ImgNext == png \/ png_wx

ImgSpec == ImgInit /\ [][ImgNext]_vars

---------------------------------------------------------------------------
(* setup_style_tree on its own: the call of line 102 on every data that    *)
(* the parsers can return for one package of Style blocks and one Item     *)
(* block                                                                   *)

\* The Style blocks of the package.  The ids are in the order of StyleOrder:
\* every other order is one of these with the ids renamed, and the bases
\* and the item's style entries range over all ids.
StyleOrder == <<"A", "B", "C">>

SubSeqs ==
    { SelectSeq(StyleOrder, LAMBDA x : x \in S) : S \in SUBSET StyleIds }

StyleBlocks ==
    UNION { { [k \in DOMAIN ids |-> Node("Style", ids[k], FALSE, bs[k], <<>>)]
                : bs \in [DOMAIN ids -> StyleIds \cup {None}] }
            : ids \in SubSeqs }

StyPairs == { Sty(k, f) : k \in StyleIds, f \in Folders }

\* The version blocks of the Item block: one version of up to MaxSty style
\* entries, or two versions of at most one entry each.
ItemVersions ==
    { <<d>> : d \in SeqUpTo(StyPairs, MaxSty) }
        \cup { <<d1, d2>> : d1, d2 \in SeqUpTo(StyPairs, 1) }

ItemBlocks == { Node("Item", "I", FALSE, None, v) : v \in ItemVersions }

\* data as lines 60-72 leave it for a package of these blocks
Parsed(type, blocks) ==
    [k \in DOMAIN blocks |->
        WithPackage(Parse(type, 1, blocks[k].id, blocks[k]).obj,
                    [pak_id |-> PakIds[1], dispName |-> PakIds[1]])]

StyleInit ==
    /\ \E sb \in StyleBlocks, ib \in ItemBlocks :
        /\ dir = <<GoodZip(1, <<>>, sb \o <<ib>>)>>
        /\ Parse("Item", 1, ib.id, ib).err = "none"
        /\ data = [t \in TypeSet |->
                     CASE t = "Style" -> Parsed(t, sb)
                       [] t = "Item" -> Parsed(t, <<ib>>)
                       [] OTHER -> <<>>]
    /\ load_res = FALSE
    /\ pc = "tree"
    /\ idx = 1
    /\ packages = <<>>
    /\ zips = <<>>
    /\ obj = [t \in TypeSet |-> <<>>]
    /\ obj_override = [t \in TypeSet |-> EmptyDict]
    /\ objects = 0
    /\ events = <<>>
    /\ merges = <<>>
    /\ err = "none"
    /\ seen = <<>>
    /\ styles = <<>>
    /\ b_style = None
    /\ base = <<>>
    /\ declared = <<>>
    /\ first = <<>>
    /\ ImgNotImported

StyleSpec == StyleInit /\ [][TreeNext]_vars

\* The loops of setup_style_tree run on: no step waits for anything.
StyleFairSpec == StyleSpec /\ WF_vars(TreeNext)

---------------------------------------------------------------------------
(* Style inheritance: what the properties speak of *)

LoadedIds == {data["Style"][k].id : k \in DOMAIN data["Style"]}

\* The loaded style that style id declares as its base, or None.
BaseOf(id) ==
    LET b == Lookup(data["Style"], id).base_style
    IN  IF b \in LoadedIds THEN b ELSE None

\* The n-th ancestor of a style, or None when the chain ends before it.
RECURSIVE Ancestor(_, _)
Ancestor(id, n) ==
    IF n = 0 \/ id = None THEN id ELSE Ancestor(BaseOf(id), n - 1)

\* The versions of the items, as (item, version) positions.
Versions ==
    UNION {{<<i, v>> : v \in DOMAIN data["Item"][i].versions} :
              i \in DOMAIN data["Item"]}

Resolved(iv) == data["Item"][iv[1]].versions[iv[2]]
Declared(iv) == declared[iv[1]].versions[iv[2]]
DeclaredKeys(iv) == {Declared(iv).styles[k].id : k \in DOMAIN Declared(iv).styles}

\* The distances of the ancestors of style id that version iv declared.
DeclaredAncestors(iv, id) ==
    {n \in 1..Len(data["Style"]) : Ancestor(id, n) \in DeclaredKeys(iv)}

Nearest(iv, id) ==
    CHOOSE n \in DeclaredAncestors(iv, id) :
        \A m \in DeclaredAncestors(iv, id) : n <= m

\* C1: once setup_style_tree has run, every version of every item has an
\* entry in styles for the id of every loaded style.
C1_EveryStylePresent ==
    pc = "done" =>
        \A iv \in Versions : \A K \in LoadedIds : HasKey(Resolved(iv).styles, K)

\* C1 happens: the resolver has run on a version that declared data for
\* one loaded style and none for another.
C1_Witness ==
    /\ pc = "done"
    /\ \E iv \in Versions : \E K, L \in LoadedIds :
          K \notin DeclaredKeys(iv) /\ L \in DeclaredKeys(iv)

\* C2: setup_style_tree finishes for every set of styles, cyclic base
\* references included.
C2_Terminates == <>(pc = "done")

\* C3: a style without declared data in a version gets the data the
\* version declared for its nearest ancestor that has some.
C3_NearestAncestor ==
    pc = "done" =>
        \A iv \in Versions : \A B \in LoadedIds :
            (B \notin DeclaredKeys(iv) /\ DeclaredAncestors(iv, B) # {}) =>
                Lookup(Resolved(iv).styles, B).val =
                    Lookup(Declared(iv).styles, Ancestor(B, Nearest(iv, B))).val

\* C3 happens: a style without declared data has two declared ancestors
\* with different data.
C3_Witness ==
    /\ pc = "done"
    /\ \E iv \in Versions : \E B \in LoadedIds :
          /\ B \notin DeclaredKeys(iv)
          /\ \E n, m \in DeclaredAncestors(iv, B) :
                /\ n < m
                /\ Lookup(Declared(iv).styles, Ancestor(B, n)).val #
                   Lookup(Declared(iv).styles, Ancestor(B, m)).val

\* C4: a style with no declared data in a version, for itself or for any
\* ancestor, gets the version's def_style, and the call raises nothing.
C4_DefaultStyle ==
    pc = "done" =>
        /\ err = "none"
        /\ \A iv \in Versions : \A K \in LoadedIds :
            (K \notin DeclaredKeys(iv) /\ DeclaredAncestors(iv, K) = {}) =>
                Lookup(Resolved(iv).styles, K).val = Declared(iv).def_style

\* C4 happens: a style with a loaded base, neither with declared data, in
\* a version that declared data for some other key.
C4_Witness ==
    /\ pc = "done"
    /\ \E iv \in Versions : \E K \in LoadedIds :
          /\ K \notin DeclaredKeys(iv)
          /\ DeclaredAncestors(iv, K) = {}
          /\ BaseOf(K) # None
          /\ Declared(iv).styles # <<>>
          /\ Lookup(Resolved(iv).styles, K).val = Declared(iv).def_style

\* C5: the chain stored for a style starts with the style, goes from each
\* element to the loaded style it declares as base, and ends at the first
\* style whose base is absent or not loaded; every style gets its chain;
\* the chain being built starts and goes on the same way.
C5_BaseChain ==
    /\ \A k \in DOMAIN data["Style"] :
        LET S == data["Style"][k]
        IN  /\ pc = "done" => S.bases # <<>>
            /\ S.bases # <<>> =>
                /\ S.bases[1] = S.id
                /\ \A j \in 1..(Len(S.bases) - 1) :
                      S.bases[j + 1] = BaseOf(S.bases[j])
                /\ BaseOf(S.bases[Len(S.bases)]) = None
    /\ (pc \in {"chain_test", "chain_body"} /\ base # <<>>) =>
        /\ base[1] = styles[idx].id
        /\ \A j \in 1..(Len(base) - 1) : base[j + 1] = BaseOf(base[j])

\* C5 happens: a style whose declared base is not loaded has the chain of
\* itself alone, and another style has a longer chain.
C5_Witness ==
    /\ pc = "done"
    /\ \E j, k \in DOMAIN data["Style"] :
          /\ data["Style"][j].base_style \notin LoadedIds \cup {None}
          /\ data["Style"][j].bases = <<data["Style"][j].id>>
          /\ Len(data["Style"][k].bases) >= 2

---------------------------------------------------------------------------
(* Collection and merging: what the properties speak of *)

\* The tuple parse_package records for a definition it has looked at.
Recorded(s) ==
    [id |-> s.node.id, zip |-> s.zip, node |-> s.node, pak_id |-> s.pak,
     dispName |-> s.pak]

\* The definitions of category t and id looked at so far, as positions of
\* the history, and those flagged overrideOrig among them.
SeenAt(t, id) ==
    {k \in DOMAIN seen : seen[k].node.type = t /\ seen[k].node.id = id}

SeenIds(t) == {seen[k].node.id : k \in {j \in DOMAIN seen : seen[j].node.type = t}}

First(S) == CHOOSE k \in S : \A j \in S : k <= j

SeenOverrides(t, id) ==
    LET all == [k \in DOMAIN seen |-> [zip |-> seen[k].zip, node |-> seen[k].node]]
    IN  SelectSeq(all, LAMBDA e : e.node.type = t /\ e.node.id = id /\ e.node.over)

\* The override list of an id in a category: its entry in the dict.
OverrideList(t, id) ==
    IF InOverride(obj_override[t], id)
    THEN Lookup(obj_override[t].map, id).list
    ELSE <<>>

\* loadAll has gone past the collection of lines 50-55.
Collected ==
    \E k \in DOMAIN events : events[k].op = "length" /\ events[k].stage = "OBJ"

\* C6: once two definitions of an id in a category have been seen that are
\* not overrides, the original on record is still the first definition
\* recorded for the id, and collection has raised nothing.
C6_FirstOriginalKept ==
    \A t \in TypeSet : \A id \in SeenIds(t) :
        (\E j, k \in SeenAt(t, id) : j < k /\ ~seen[j].node.over /\ ~seen[k].node.over)
            => /\ HasKey(obj[t], id)
               /\ Lookup(obj[t], id) = Recorded(seen[First(SeenAt(t, id))])
               /\ (err # "none" => Collected)

\* C6 happens: a load has completed in which a later package defined an
\* id that an earlier package had defined, neither as an override.
C6_Witness ==
    /\ pc = "done"
    /\ \E j, k \in DOMAIN seen :
          /\ j < k
          /\ seen[j].node.type = seen[k].node.type
          /\ seen[j].node.id = seen[k].node.id
          /\ ~seen[j].node.over /\ ~seen[k].node.over
          /\ seen[j].pak # seen[k].pak

\* C7: the override list of every id holds the definitions of the id seen
\* with overrideOrig '1', all of them and in the order seen, and no such
\* definition is on record as an original.
C7_OverridesCollected ==
    \A t \in TypeSet :
        /\ \A id \in SeenIds(t) : OverrideList(t, id) = SeenOverrides(t, id)
        /\ \A k \in DOMAIN obj[t] : ~obj[t][k].node.over

\* The add_over calls made for an id of a category, in order.
MergesOf(t, id) == SelectSeq(merges, LAMBDA m : m.type = t /\ m.id = id)

\* C8: a load ends completed, having called add_over on the parsed
\* original once for every override collected for its id, in collection
\* order, whenever an id has an original and overrides.
C8_OverridesMerged ==
    pc \in {"done", "raised"} =>
        \A t \in TypeSet : \A id \in SeenIds(t) :
            (/\ HasKey(obj[t], id)
             /\ ~Lookup(obj[t], id).node.over
             /\ SeenOverrides(t, id) # <<>>) =>
                /\ pc = "done"
                /\ HasKey(data[t], id)
                /\ MergesOf(t, id) =
                      [k \in DOMAIN SeenOverrides(t, id) |->
                          [type |-> t, id |-> id, zip |-> SeenOverrides(t, id)[k].zip]]

\* The packages of the registry that name a prerequisite the registry
\* does not hold.
Rejected ==
    {k \in DOMAIN packages :
        \E j \in DOMAIN packages[k].info.pre :
            \A p \in DOMAIN packages : packages[p].id # packages[k].info.pre[j]}

\* What parse_package looks at in the packages 1..n of the registry when
\* it leaves out the rejected ones.
RECURSIVE ExpectedSeen(_)
ExpectedSeen(n) ==
    IF n = 0 THEN <<>>
    ELSE ExpectedSeen(n - 1) \o
         (IF n \in Rejected THEN <<>>
          ELSE [k \in DOMAIN ByCategory(packages[n].info) |->
                  [node |-> ByCategory(packages[n].info)[k],
                   pak |-> packages[n].id, zip |-> packages[n].zip]])

\* C9: a package with a prerequisite that the registry does not hold
\* leaves no original and no override on record and counts for 0, nothing
\* is raised, and the definitions of the other packages are all looked at.
C9_MissingPrerequisite ==
    pc \notin {"idle", "scan"} =>
        /\ \A r \in Rejected :
              /\ \A k \in DOMAIN seen : seen[k].zip # packages[r].zip
              /\ \A t \in TypeSet :
                    /\ \A k \in DOMAIN obj[t] : obj[t][k].zip # packages[r].zip
                    /\ \A k \in DOMAIN obj_override[t].list :
                          obj_override[t].list[k].zip # packages[r].zip
        /\ err \notin {"none", "MissingField"} => Collected
        /\ pc = "collect" => objects = Len(seen) /\ seen = ExpectedSeen(idx - 1)
        /\ Collected => objects = Len(seen) /\ seen = ExpectedSeen(Len(packages))

\* C9 happens: a load has completed in which a package with definitions
\* was rejected and another package's definitions were collected.
C9_Witness ==
    /\ pc = "done"
    /\ \E r \in Rejected : packages[r].info.defs # <<>>
    /\ seen # <<>>

\* The archives of the directory that hold info.txt with an ID, as
\* positions, and those that hold no info.txt.
Manifests ==
    {k \in DOMAIN dir : dir[k].kind = "zip" /\ dir[k].info /\ dir[k].id # None}
NoManifest == {k \in DOMAIN dir : dir[k].kind = "zip" /\ ~dir[k].info}

\* The registry of a directory read up to entry n as if its archives
\* without info.txt were not in it.
RECURSIVE ExpectedRegistry(_)
ExpectedRegistry(n) ==
    IF n = 0 THEN <<>>
    ELSE IF n \in Manifests
         THEN DictSet(ExpectedRegistry(n - 1), Package(n))
         ELSE ExpectedRegistry(n - 1)

\* C10: an archive without info.txt is never in the registry and nothing
\* on record comes from it, reading it raises nothing, and the registry is
\* the one of the directory without it.
C10_NoManifest ==
    /\ \A b \in NoManifest :
          /\ \A k \in DOMAIN packages : packages[k].zip # b
          /\ \A k \in DOMAIN seen : seen[k].zip # b
          /\ \A t \in TypeSet :
                /\ \A k \in DOMAIN obj[t] : obj[t][k].zip # b
                /\ \A k \in DOMAIN obj_override[t].list :
                      obj_override[t].list[k].zip # b
    /\ pc = "scan" => err = "none" /\ packages = ExpectedRegistry(idx - 1)
    /\ (pc \notin {"idle", "scan"} /\ err # "MissingField") =>
            packages = ExpectedRegistry(Len(dir))

\* C10 happens: a load has completed on a directory with an archive
\* without info.txt and a package whose definitions are in the result.
C10_Witness ==
    /\ pc = "done"
    /\ NoManifest # {}
    /\ \E t \in TypeSet : data[t] # <<>>

---------------------------------------------------------------------------
(* Failures and archive handles: what the properties speak of *)

\* The recorded original at position k of the parse loops cannot be parsed.
ParseFails(k) ==
    LET e == ParseList[k]
    IN  Parse(e.type, e.ent.zip, e.ent.id, e.ent.node).err # "none"

\* C11: a load in which nothing fails but the parsing of definitions (an
\* item folder missing from the archive) completes, and every recorded
\* original that can be parsed is in the result.
C11_DefinitionFailureSkipped ==
    (pc \in {"done", "raised"} /\ err \in {"none", "IOError", "KeyError"}) =>
        /\ pc = "done"
        /\ \A k \in DOMAIN ParseList :
              ~ParseFails(k) =>
                  HasKey(data[ParseList[k].type], ParseList[k].ent.id)

\* The archives of the directory that line 32 has opened, as positions:
\* those before the entry the loop of line 28 is at, that entry too when
\* reading its manifest raised, all of them once the loop is over.
Opened ==
    {k \in DOMAIN dir :
        /\ dir[k].kind = "zip"
        /\ pc # "idle"
        /\ IF pc = "scan" THEN k < idx
           ELSE IF err = "MissingField" THEN k <= idx
           ELSE TRUE}

\* The call has left the try statement of lines 27-101.
Left ==
    pc \in {"raised", "tree", "chain_next", "chain_test", "chain_body", "fill",
            "done"}

\* C12: once the call has left the try statement, by return or by an
\* exception, every archive it opened has a handle in zips and every
\* handle is closed.
C12_HandlesClosed ==
    Left =>
        /\ {zips[k].arch : k \in DOMAIN zips} = Opened
        /\ \A k \in DOMAIN zips : ~zips[k].open

\* C12 happens: a load has raised while extracting, with the handles of an
\* archive without info.txt and of a package both closed.
C12_Witness ==
    /\ pc = "raised" /\ err = "OSError"
    /\ \E j, k \in DOMAIN zips :
          /\ ~dir[zips[j].arch].info /\ dir[zips[k].arch].info
          /\ ~zips[j].open /\ ~zips[k].open

---------------------------------------------------------------------------
(* Repeated loads and the order of the result *)

Accepted(k) ==
    /\ k \in Manifests
    /\ \A j \in DOMAIN dir[k].pre :
          \E m \in Manifests : dir[m].id = dir[k].pre[j]

\* The definitions of category t as (id, package) pairs: directory order,
\* then the order of the blocks in the manifest.
DeclaredIn(t) ==
    Concat([k \in DOMAIN dir |->
        IF Accepted(k)
        THEN LET blocks == SelectSeq(dir[k].defs, LAMBDA n : n.type = t)
             IN  [j \in DOMAIN blocks |-> [id |-> blocks[j].id, pak |-> dir[k].id]]
        ELSE <<>>])

\* A sequence of (id, package) pairs without the later pairs of an id.
RECURSIVE FirstOfEach(_)
FirstOfEach(ps) ==
    IF ps = <<>> THEN <<>>
    ELSE LET r == FirstOfEach(SubSeq(ps, 1, Len(ps) - 1))
             p == ps[Len(ps)]
         IN  IF HasKey(r, p.id) THEN r ELSE Append(r, p)

\* C14: the objects a load returns in a category are, in order, the first
\* definitions of the ids of the category, by package in scan order and
\* then by position in the manifest: one object for every id.
C14_ResultOrder ==
    pc = "done" =>
        \A t \in TypeSet :
            [k \in DOMAIN data[t] |-> [id |-> data[t][k].id, pak |-> data[t][k].pak_id]]
                = FirstOfEach(DeclaredIn(t))

\* C14 happens: a load has returned objects of two packages in a category
\* in which an id was defined twice.
C14_Witness ==
    /\ pc = "done"
    /\ \E t \in TypeSet :
          /\ \E j, k \in DOMAIN data[t] : data[t][j].pak_id # data[t][k].pak_id
          /\ Len(DeclaredIn(t)) > Len(data[t])

---------------------------------------------------------------------------
(* The stages of a load and its progress events *)

\* The positions of the events of a stage, by operation.
EventsOf(op, stage) ==
    {k \in DOMAIN events : events[k].op = op /\ events[k].stage = stage}

\* setup_style_tree has been called / has returned.
Resolving == pc \in {"chain_next", "chain_test", "chain_body", "fill", "done"}
ResolvedAll == pc = "done"

\* C15: the stages run in the order registry, collection, parsing and
\* merging, style inheritance, extraction: the registry holds every
\* accepted manifest once collection has started, nothing is parsed before
\* the collection is over, the resolver starts with every recorded Style
\* and Item parsed, and the extraction stage starts after the resolver has
\* returned.
C15_StageOrder ==
    /\ (seen # <<>> \/ pc = "collect") =>
            {packages[k].zip : k \in DOMAIN packages} = Manifests
    /\ (\E t \in TypeSet : data[t] # <<>>) => Collected
    /\ Resolving =>
            \A t \in {"Style", "Item"} : \A k \in DOMAIN obj[t] :
                HasKey(data[t], obj[t][k].id)
    /\ EventsOf("length", "RES") # {} => ResolvedAll

\* The events as (operation, stage) pairs.
Shape == [k \in DOMAIN events |-> <<events[k].op, events[k].stage>>]

Steps(stage, n) == [k \in 1..n |-> <<"step", stage>>]

\* The events of a load of a PAK steps, b OBJ steps and c RES steps.
Pattern(a, b, c) ==
    <<<<"length", "PAK">>>> \o Steps("PAK", a)
        \o <<<<"length", "OBJ">>, <<"length", "IMG">>>> \o Steps("OBJ", b)
        \o <<<<"length", "RES">>>> \o Steps("RES", c)

\* C16: no step of a stage is emitted before the length of the stage, and
\* the events of a load that completes are the PAK length, the PAK steps,
\* the OBJ and IMG lengths, the OBJ steps, the RES length, the RES steps.
C16_EventOrder ==
    /\ \A k \in DOMAIN events :
          events[k].op = "step" =>
              \E j \in EventsOf("length", events[k].stage) : j < k
    /\ pc = "done" =>
          Shape = Pattern(Cardinality(EventsOf("step", "PAK")),
                          Cardinality(EventsOf("step", "OBJ")),
                          Cardinality(EventsOf("step", "RES")))

\* C16 happens: a load has completed with two steps or more in every
\* stage.
C16_Witness ==
    /\ pc = "done"
    /\ \A stage \in {"PAK", "OBJ", "RES"} :
          Cardinality(EventsOf("step", stage)) >= 2

\* The length announced for a stage (0 when none was).
Announced(stage) ==
    IF EventsOf("length", stage) = {} THEN 0
    ELSE events[CHOOSE k \in EventsOf("length", stage) : TRUE].n

\* C17: a load that completes has emitted, for each of PAK, OBJ and RES,
\* as many steps as the length it announced for the stage.
C17_StagesFilled ==
    pc = "done" =>
        \A stage \in {"PAK", "OBJ", "RES"} :
            Cardinality(EventsOf("step", stage)) = Announced(stage)

---------------------------------------------------------------------------
(* The image cache *)

\* C18: a call of png, or of png_wx, with the path and size of an earlier
\* call of the same function returns the image that call returned and
\* does not read the filesystem.
C18_ImageCached ==
    \A j, k \in DOMAIN calls :
        (/\ j < k
         /\ calls[j].fn = calls[k].fn
         /\ calls[j].path = calls[k].path
         /\ calls[j].size = calls[k].size) =>
            /\ calls[k].ret = calls[j].ret
            /\ ~calls[k].touched

---------------------------------------------------------------------------
(* The category parsers: what the properties speak of *)

\* The parse loops of lines 60-72 are over: by line 73 or by an exception.
ParsedAll == pc \notin {"idle", "scan", "collect", "parse"}

\* C19: every version of a parsed item that declares a style has, as its
\* def_style, the folder data of the first style the version itself
\* declares.
C19_DefStyleOfVersion ==
    ParsedAll =>
        \A i \in DOMAIN data["Item"] :
            LET block == Lookup(obj["Item"], data["Item"][i].id).node
            IN  \A v \in DOMAIN block.vers :
                    block.vers[v] # <<>> =>
                        data["Item"][i].versions[v].def_style =
                            FolderData(block.vers[v][1].value)

\* The configuration file a block names: voice/<file>.voice of a
\* QuotePack, skybox/<config>.cfg, goo/<config>, music/<config>.
NamedFile(node) ==
    CASE node.type = "QuotePack" -> Entry("voice/", node.file, ".voice")
      [] node.type = "Skybox" -> Entry("skybox/", node.config, ".cfg")
      [] node.type = "Goo" -> Entry("goo/", node.config, "")
      [] node.type = "Music" -> Entry("music/", node.config, "")

NamesFile(node) == node.type = "QuotePack" \/ node.config # ""

\* C20: once the parse loops are over, no voice, skybox, goo or music
\* parser has failed on a file that is no entry of the archive, and every
\* recorded block of these categories that names a file has its object in
\* the result, with the parsed content of the file when the archive holds
\* it and with an empty configuration when not.
C20_OptionalConfig ==
    ParsedAll =>
        \A t \in ConfTypes : \A k \in DOMAIN obj[t] :
            LET e == obj[t][k]
            IN  NamesFile(e.node) =>
                    /\ HasKey(data[t], e.id)
                    /\ Lookup(data[t], e.id).config =
                          IF InZip(e.zip, NamedFile(e.node))
                          THEN Content(NamedFile(e.node)) ELSE <<>>

---------------------------------------------------------------------------
(* Override merging *)

\* An object with the list-valued fields of an override added at the end
\* of its own.
Appended(t, self, override) ==
    IF t = "StyleVar"
    THEN [self EXCEPT !.styles = @ \o override.styles]
    ELSE [self EXCEPT !.auth = @ \o override.auth,
                      !.config = @ \o override.config]

\* C21: the last add_over call on a Skybox, Goo, Music or StyleVar raised
\* nothing and left the original as it was before the call but for its
\* list fields, which have the values of the override added at their end.
C21_AddOverAppends ==
    merges # <<>> =>
        LET m == merges[Len(merges)]
        IN  /\ err = "none"
            /\ data[m.type][1] = Appended(m.type, m.self, m.override)

\* C22: when definition collection starts in a call of loadAll, the
\* registry holds exactly the packages of the archives with a manifest in
\* the directory of that call, each with the handle this call has opened:
\* no package an earlier call of the process registered is left in it.
C22_RegistryOfThisCall ==
    (pc = "collect" /\ idx = 1) => packages = ExpectedRegistry(Len(dir))

---------------------------------------------------------------------------
(* What setup_style_tree leaves alone *)

\* The Style blocks the data of the resolver was parsed from.
StyleBlocksOf == find_all(dir[1], "Style")

\* The ids of a list of objects or blocks, in order.
IdsOf(list) == [k \in DOMAIN list |-> list[k].id]

\* C23: setup_style_tree only adds entries.  From its call on, the Style
\* objects and the items are the ones it received, in their order, every
\* item has the versions it had, in their order, and every version differs
\* from what it was in its styles alone: def_style is the same, and the
\* entries it had, those whose key names no loaded style included, are the
\* first entries of styles, in their order and with their data.
C23_OnlyAdds ==
    Resolving =>
        /\ IdsOf(data["Style"]) = IdsOf(StyleBlocksOf)
        /\ \A k \in DOMAIN data["Style"] :
              data["Style"][k].base_style = StyleBlocksOf[k].base
        /\ IdsOf(data["Item"]) = IdsOf(declared)
        /\ \A i \in DOMAIN declared :
              /\ Len(data["Item"][i].versions) = Len(declared[i].versions)
              /\ [data["Item"][i] EXCEPT !.versions = declared[i].versions]
                    = declared[i]
        /\ \A iv \in Versions :
              /\ Resolved(iv).def_style = Declared(iv).def_style
              /\ [Resolved(iv) EXCEPT !.styles = Declared(iv).styles] = Declared(iv)
              /\ Len(Resolved(iv).styles) >= Len(Declared(iv).styles)
              /\ SubSeq(Resolved(iv).styles, 1, Len(Declared(iv).styles))
                    = Declared(iv).styles

\* C23 happens: the resolver has returned and has added an entry to a
\* version that had data for a loaded style and for a key that names no
\* loaded style.
C23_Witness ==
    /\ pc = "done"
    /\ \E iv \in Versions :
          /\ Len(Resolved(iv).styles) > Len(Declared(iv).styles)
          /\ \E K, L \in DeclaredKeys(iv) : K \in LoadedIds /\ L \notin LoadedIds

====
